---- MODULE Spec2Model ----
(***************************************************************************)
(* A model of rrg/report.py: the Report aggregate (add_element,            *)
(* add_elements, write), the layout containers (Cols, Cols1, Cols2,        *)
(* Cols3), the element resolver and the elements' rendering, together with *)
(* the part of the file system the write pass touches.                     *)
(*                                                                         *)
(* Python strings are sequences of one-character strings, so that          *)
(* str.replace and pathlib's parsing are computed character by character.  *)
(***************************************************************************)
EXTENDS Integers, Sequences, FiniteSets, TLC

(***************************************************************************)
(* Bounds of the model.                                                    *)
(***************************************************************************)
MaxElems == 2
MaxWrites == 2
MaxN == 8

----------------------------------------------------------------------------
(***************************************************************************)
(* Python str operations.                                                  *)
(***************************************************************************)

\* s[i..] starts with old (i is 1-based)
StartsAt(s, i, old) ==
    /\ i + Len(old) - 1 <= Len(s)
    /\ \A j \in 1..Len(old) : s[i + j - 1] = old[j]

RECURSIVE ReplaceFrom(_, _, _, _)
ReplaceFrom(s, i, old, new) ==
    IF i > Len(s) THEN <<>>
    ELSE IF StartsAt(s, i, old)
         THEN new \o ReplaceFrom(s, i + Len(old), old, new)
         ELSE <<s[i]>> \o ReplaceFrom(s, i + 1, old, new)

\* str.replace(old, new) for a non-empty old: every non-overlapping
\* occurrence, scanning from the left
StrReplace(s, old, new) == ReplaceFrom(s, 1, old, new)

\* str.rfind(c) as a 0-based index, -1 when c does not occur
RFind(s, c) ==
    LET hits == {i \in 1..Len(s) : s[i] = c}
    IN  IF hits = {} THEN -1
        ELSE (CHOOSE i \in hits : \A j \in hits : j <= i) - 1

RECURSIVE SplitFrom(_, _, _)
\* the pieces of s between separators, the piece being built is cur
SplitFrom(s, i, cur) ==
    IF i > Len(s) THEN <<cur>>
    ELSE IF s[i] = "/" THEN <<cur>> \o SplitFrom(s, i + 1, <<>>)
         ELSE SplitFrom(s, i + 1, Append(cur, s[i]))

RECURSIVE JoinParts(_)
JoinParts(parts) ==
    IF parts = <<>> THEN <<>>
    ELSE IF Len(parts) = 1 THEN parts[1]
         ELSE parts[1] \o <<"/">> \o JoinParts(Tail(parts))

----------------------------------------------------------------------------
(***************************************************************************)
(* pathlib.Path (posix flavour): a path is its root flag and its parts.    *)
(***************************************************************************)

\* Path(s): empty and "." components are dropped
PathOf(s) ==
    [root  |-> Len(s) > 0 /\ s[1] = "/",
     parts |-> SelectSeq(SplitFrom(s, 1, <<>>),
                         LAMBDA c : c # <<>> /\ c # <<".">>)]

\* str(path)
PathStr(p) ==
    IF p.root THEN <<"/">> \o JoinParts(p.parts)
    ELSE IF p.parts = <<>> THEN <<".">>
         ELSE JoinParts(p.parts)

\* path.parent
PathParent(p) ==
    IF p.parts = <<>> THEN p
    ELSE [p EXCEPT !.parts = SubSeq(p.parts, 1, Len(p.parts) - 1)]

\* path.parents[2]
PathParents2(p) == PathParent(PathParent(PathParent(p)))

\* path.joinpath(s)
JoinPath(p, s) ==
    LET q == PathOf(s)
    IN  IF q.root THEN q ELSE [p EXCEPT !.parts = p.parts \o q.parts]

\* path.name
PathName(p) == IF p.parts = <<>> THEN <<>> ELSE p.parts[Len(p.parts)]

\* path.stem
PathStem(p) ==
    LET name == PathName(p)
        i == RFind(name, ".")
    IN  IF 0 < i /\ i < Len(name) - 1 THEN SubSeq(name, 1, i) ELSE name

\* the user's home directory, which expanduser() puts in place of "~"
HomeDir == <<"/", "h">>

\* path.expanduser()
ExpandUser(p) ==
    IF ~p.root /\ p.parts # <<>> /\ p.parts[1] = <<"~">>
    THEN JoinPath(PathOf(HomeDir), JoinParts(Tail(p.parts)))
    ELSE p

\* p is d or lies below d
IsUnder(p, d) ==
    /\ p.root = d.root
    /\ Len(d.parts) <= Len(p.parts)
    /\ SubSeq(p.parts, 1, Len(d.parts)) = d.parts

----------------------------------------------------------------------------
(***************************************************************************)
(* Markup (dominate tags).  A class "col-md-2" is the tuple                *)
(* <<"col", "md", 2>>.                                                     *)
(***************************************************************************)

TextNode(s) == [tag |-> "#text", text |-> s]
RawNode(s) == [tag |-> "#raw", text |-> s]
Div(cls, kids) == [tag |-> "div", cls |-> cls, kids |-> kids]

_Container(kids) == Div(<<"container-fluid">>, kids)
_Col(kids, c) == Div(<<"col">> \o c, kids)
_Col12(kids) == _Col(kids, <<"xl", 12>>)
_Row(kids) == Div(<<"row">>, kids)

\* Divider(strength)._get_html()
Divider(strength) == [tag |-> "hr", height |-> strength]

DecDigit == <<"0", "1", "2", "3", "4", "5", "6", "7", "8", "9">>
HexDigit == DecDigit \o <<"a", "b", "c", "d", "e", "f">>

RECURSIVE IntStr(_)
\* str(i) of a natural number
IntStr(i) ==
    IF i < 10 THEN <<DecDigit[i + 1]>>
    ELSE IntStr(i \div 10) \o <<DecDigit[(i % 10) + 1]>>

\* uuid4().hex of the n-th call: a name no other call returns
UuidHex(n) == <<HexDigit[((n \div 16) % 16) + 1], HexDigit[(n % 16) + 1]>>

----------------------------------------------------------------------------
(***************************************************************************)
(* Values a caller passes, and the elements they resolve to.               *)
(* fail is the exception the plotting backend raises when asked to         *)
(* serialize the figure ("none": it succeeds).                             *)
(***************************************************************************)

StrValue(s) == [k |-> "str", v |-> s]
HtmlTag(s) == [k |-> "html_tag", v |-> s]
PltFigure(fail) == [k |-> "pltFigure", v |-> <<"F">>, fail |-> fail]
GoFigure(fail) == [k |-> "goFigure", v |-> <<"G">>, fail |-> fail]
\* an object of no type the resolver knows, whose str() is s
Object(s) == [k |-> "object", v |-> s]

\* SectionHeader.__init__ with the name taken as the id unchanged
SectionHeaderRawId(name) ==
    [k |-> "SectionHeader", v |-> <<"S">>, _name |-> name, _id |-> name]

\* SectionHeader.__init__
SectionHeader(name) ==
    [k |-> "SectionHeader", v |-> <<"S">>, _name |-> name,
     _id |-> StrReplace(name, <<" ">>, <<"_">>)]

TextElement(el) == [k |-> "TextElement", v |-> <<"T">>, content |-> el]
HTMLElement(el) == [k |-> "HTMLElement", v |-> <<"H">>, content |-> el]
MatplotlibElement(el, tag) ==
    [k |-> "MatplotlibElement", v |-> <<"M">>, content |-> el, tag |-> tag]
PlotlyElement(el, tag) ==
    [k |-> "PlotlyElement", v |-> <<"P">>, content |-> el, tag |-> tag]

\* the (name, id) pairs of the SectionHeaders among the values vs
HeaderPairsIn(vs) ==
    LET hs == SelectSeq(vs, LAMBDA e : e.k = "SectionHeader")
    IN  [i \in 1..Len(hs) |-> <<hs[i]._name, hs[i]._id>>]

ColsKinds == {"Cols", "Cols1", "Cols2", "Cols3"}

\* isinstance(el, _NCols)
IsNCols(el) == el.k \in ColsKinds

\* isinstance(el, BaseElement) and hasattr(el, "tag")
IsTaggedBaseElement(el) == el.k \in {"MatplotlibElement", "PlotlyElement"}

\* str(el) of a value: its repr
ObjStr(el) == el.v

\* _resolve_element
_resolve_element(el, tag) ==
    IF el.k = "html_tag" THEN HTMLElement(el.v)
    ELSE IF el.k = "str" THEN TextElement(el.v)
    ELSE IF el.k = "pltFigure" THEN MatplotlibElement(el, tag)
    ELSE IF el.k = "goFigure" THEN PlotlyElement(el, tag)
    ELSE IF IsTaggedBaseElement(el) THEN [el EXCEPT !.tag = tag]
    ELSE el

----------------------------------------------------------------------------
(***************************************************************************)
(* Layout containers.  The argument of a constructor is a mapping (its     *)
(* distinct keys and its values, in order) or a plain sequence of values.  *)
(***************************************************************************)

DictInput(keys, items) == [isdict |-> TRUE, keys |-> keys, items |-> items]
ListInput(items) == [isdict |-> FALSE, keys |-> <<>>, items |-> items]

\* the tag "(i)" a plain sequence gives its i-th entry (0-based)
IndexTag(i) == <<"(">> \o IntStr(i) \o <<")">>

\* _NCols.__init__: the resolved elements
NColsElements(input) ==
    [i \in 1..Len(input.items) |->
        _resolve_element(input.items[i],
                         IF input.isdict THEN input.keys[i]
                         ELSE IndexTag(i - 1))]

Cols1(input) ==
    [k |-> "Cols1", v |-> <<"C">>, n_cols |-> 1, col_cls |-> <<"xl", 12>>,
     elements |-> NColsElements(input)]

Cols2(input) ==
    [k |-> "Cols2", v |-> <<"C">>, n_cols |-> 2, col_cls |-> <<"lg", 6>>,
     elements |-> NColsElements(input)]

Cols3(input) ==
    [k |-> "Cols3", v |-> <<"C">>, n_cols |-> 3, col_cls |-> <<"lg", 4>>,
     elements |-> NColsElements(input)]

\* ColsClass with the last comparison off by one
ColsClassOffByOne(N) ==
    IF N = 1 THEN <<"xl", 12>>
    ELSE IF N = 2 THEN <<"lg", 6>>
    ELSE IF N = 3 THEN <<"lg", 4>>
    ELSE IF N = 4 THEN <<"md", 3>>
    ELSE IF N <= 7 THEN <<"sm", 2>>
    ELSE <<"sm", 1>>

\* Cols.__init__: the column class chosen for N entries
ColsClass(N) ==
    IF N = 1 THEN <<"xl", 12>>
    ELSE IF N = 2 THEN <<"lg", 6>>
    ELSE IF N = 3 THEN <<"lg", 4>>
    ELSE IF N = 4 THEN <<"md", 3>>
    ELSE IF N < 7 THEN <<"sm", 2>>
    ELSE <<"sm", 1>>

Cols(input) ==
    [k |-> "Cols", v |-> <<"C">>, n_cols |-> Len(input.items),
     col_cls |-> ColsClass(Len(input.items)),
     elements |-> NColsElements(input)]

\* the constructor of the named class
Construct(kind, input) ==
    CASE kind = "Cols" -> Cols(input)
      [] kind = "Cols1" -> Cols1(input)
      [] kind = "Cols2" -> Cols2(input)
      [] kind = "Cols3" -> Cols3(input)

----------------------------------------------------------------------------
(***************************************************************************)
(* Rendering.  A _get_html call returns                                    *)
(*   exc   : "none" or the exception that left the call,                   *)
(*   html  : the markup built (when exc = "none"),                         *)
(*   files : the files it wrote,                                           *)
(*   n     : the number of uuid4() calls made so far.                      *)
(***************************************************************************)

Returned(html, files, n) ==
    [exc |-> "none", html |-> html, files |-> files, n |-> n]
Raised(exc, files, n) ==
    [exc |-> exc, html |-> TextNode(<<>>), files |-> files, n |-> n]

Anchor(href, kids) == [tag |-> "a", href |-> href, kids |-> kids]
Caption(tag, href) ==
    [tag |-> "p", kids |-> <<TextNode(tag), Anchor(href, <<[tag |-> "i"]>>)>>]

\* the text of the asset's path with every occurrence of
\* str(target.parents[2]), the report's directory, replaced by "."
RelPathText(target) ==
    StrReplace(PathStr(target), PathStr(PathParents2(target)), <<".">>)

\* what MatplotlibElement._get_html does once its paths are computed
MatplotlibHtml(el, target_path, src, n) ==
    IF el.content.fail # "none"
    THEN Raised(el.content.fail, {}, n + 1)
    ELSE Returned([tag |-> "div",
                   kids |-> <<Anchor(src, <<[tag |-> "img", src |-> src]>>),
                              Caption(el.tag, src)>>],
                  {target_path}, n + 1)

\* the reference a MatplotlibElement emits for its file target_path
MatplotlibRelPath(target_path) == PathStr(PathOf(RelPathText(target_path)))

\* the file a MatplotlibElement writes on the n-th uuid4() call
MatplotlibTarget(config, n) ==
    JoinPath(config.assets_path, UuidHex(n) \o <<".", "p", "n", "g">>)

\* MatplotlibElement._get_html, writing to target_path
MatplotlibGetHtmlAt(el, target_path, n) ==
    MatplotlibHtml(el, target_path, MatplotlibRelPath(target_path), n)

\* MatplotlibElement._get_html
MatplotlibGetHtml(el, config, n) ==
    MatplotlibGetHtmlAt(el, MatplotlibTarget(config, n), n)

\* the reference a PlotlyElement emits for one of its files
PlotlyRelPath(target_path) ==
    PathStr(PathOf(<<".", "/">> \o RelPathText(target_path)))

\* what PlotlyElement._get_html does once its paths are computed
PlotlyHtml(el, config, html_target_path, png_target_path, href, src, n) ==
    IF el.content.fail # "none"
    THEN Raised(el.content.fail, {}, n + 1)
    ELSE IF config.plotly_thumbnails
    THEN \* write_image into a directory that was not created fails
         IF PathParent(png_target_path) # config.assets_path
         THEN Raised("OSError", {html_target_path}, n + 1)
         ELSE Returned([tag |-> "div",
                        kids |-> <<Anchor(href,
                                      <<[tag |-> "img", src |-> src]>>),
                                   Caption(el.tag, href)>>],
                       {html_target_path, png_target_path}, n + 1)
    ELSE Returned([tag |-> "div",
                   kids |-> <<[tag |-> "iframe", src |-> href],
                              Caption(el.tag, href)>>],
                  {html_target_path}, n + 1)

\* the bitmap's path: ".html" replaced by ".png" in the document's path
PlotlyPngTarget(html_target_path) ==
    PathOf(StrReplace(PathStr(html_target_path),
                      <<".", "h", "t", "m", "l">>, <<".", "p", "n", "g">>))

\* PlotlyElement._get_html, writing to html_target_path and png_target_path
PlotlyGetHtmlAt(el, config, html_target_path, png_target_path, n) ==
    PlotlyHtml(el, config, html_target_path, png_target_path,
               PlotlyRelPath(html_target_path),
               PlotlyRelPath(png_target_path), n)

\* PlotlyElement._get_html, writing the document to html_target_path
PlotlyGetHtmlTo(el, config, html_target_path, n) ==
    PlotlyGetHtmlAt(el, config, html_target_path,
                    PlotlyPngTarget(html_target_path), n)

\* PlotlyElement._get_html
PlotlyGetHtml(el, config, n) ==
    PlotlyGetHtmlTo(el, config,
                    JoinPath(config.assets_path,
                             UuidHex(n) \o <<".", "h", "t", "m", "l">>), n)

\* SectionHeader._get_html
SectionHeaderGetHtml(el, n) ==
    Returned([tag |-> "div", id |-> el._id,
              kids |-> <<Divider(5), RawNode(<<"<h2>">> \o el._name)>>],
             {}, n)

RECURSIVE NColsRows(_, _, _, _, _, _)

\* the container markup around the rows r.html
NColsWrap(r) ==
    IF r.exc = "none"
    THEN Returned(_Container(<<_Row(r.html)>>), r.files, r.n)
    ELSE r

\* _NCols._get_html
NColsGetHtml(c, config, n) == NColsWrap(NColsRows(c, 1, config, n, <<>>, {}))

\* el._get_html(config), for whatever el is
GetHtml(el, config, n) ==
    CASE el.k = "TextElement" ->
            Returned([tag |-> "p", kids |-> <<TextNode(el.content)>>], {}, n)
      [] el.k \in {"HTMLElement", "MarkdownElement"} ->
            Returned(RawNode(el.content), {}, n)
      [] el.k = "MatplotlibElement" -> MatplotlibGetHtml(el, config, n)
      [] el.k = "PlotlyElement" -> PlotlyGetHtml(el, config, n)
      [] el.k = "SectionHeader" -> SectionHeaderGetHtml(el, n)
      [] IsNCols(el) -> NColsGetHtml(el, config, n)
      \* no _get_html attribute
      [] OTHER -> Raised("AttributeError", {}, n)

\* NColsStep without the except clause
NColsStepNoCatch(c, i, config, rows, files, el, r) ==
    IF r.exc = "none"
    THEN NColsRows(c, i + 1, config, r.n,
                   Append(rows, _Col(<<r.html>>, c.col_cls)),
                   files \cup r.files)
    ELSE Raised(r.exc, files \cup r.files, r.n)

\* one turn of the loop of _NCols._get_html: r is what el._get_html did
NColsStep(c, i, config, rows, files, el, r) ==
    IF r.exc = "none"
    THEN NColsRows(c, i + 1, config, r.n,
                   Append(rows, _Col(<<r.html>>, c.col_cls)),
                   files \cup r.files)
    ELSE IF r.exc = "AttributeError"
    THEN NColsRows(c, i + 1, config, r.n,
                   Append(rows, _Col(<<TextNode(ObjStr(el))>>, c.col_cls)),
                   files \cup r.files)
    ELSE Raised(r.exc, files \cup r.files, r.n)

\* the loop of _NCols._get_html from entry i on; rows and files are what
\* the entries before i produced
NColsRows(c, i, config, n, rows, files) ==
    IF i > Len(c.elements)
    THEN [exc |-> "none", html |-> rows, files |-> files, n |-> n]
    ELSE NColsStep(c, i, config, rows, files, c.elements[i],
                   GetHtml(c.elements[i], config, n))

RECURSIVE WriteElementsFrom(_, _, _, _, _, _)

\* one turn of the loop of Report._write_elements: r is what the
\* container's _get_html did
WriteElementsStep(elems, i, config, out, files, r) ==
    IF r.exc = "none"
    THEN WriteElementsFrom(elems, i + 1, config, r.n,
                           Append(out, r.html), files \cup r.files)
    ELSE Raised(r.exc, files \cup r.files, r.n)

\* the loop of Report._write_elements from container i on
WriteElementsFrom(elems, i, config, n, out, files) ==
    IF i > Len(elems)
    THEN [exc |-> "none", html |-> out, files |-> files, n |-> n]
    ELSE WriteElementsStep(elems, i, config, out, files,
                           NColsGetHtml(elems[i], config, n))

\* Report._write_elements
_write_elements(elems, config, n) ==
    WriteElementsFrom(elems, 1, config, n, <<>>, {})

----------------------------------------------------------------------------
(***************************************************************************)
(* The inputs the model draws from.                                        *)
(***************************************************************************)

NoArg == [given |-> FALSE, s |-> <<>>]
Arg(s) == [given |-> TRUE, s |-> s]

\* the output paths write is given: d/r.h and a/r.h
PathArgs ==
    {Arg(<<"d", "/", "r", ".", "h">>), Arg(<<"a", "/", "r", ".", "h">>)}

\* the output paths the constructor is given: none, or ~/r.h
CtorArgs == {NoArg, Arg(<<"~", "/", "r", ".", "h">>)}

\* section names: "A B" and "A B<tab>c  d"
NameAB == <<"A", " ", "B">>
NameTab == <<"A", " ", "B", "\t", "c", " ", " ", "d">>

\* values that are not layout containers
Leaves ==
    {PltFigure("none"), PltFigure("OSError"), PltFigure("AttributeError"),
     SectionHeader(NameAB), SectionHeader(NameTab)}

\* the values a container is built from
LeafSeq ==
    <<StrValue(<<"h", "i">>), Object(<<"4", "2">>), HtmlTag(<<"<b>">>),
      PltFigure("none"), SectionHeader(NameAB), GoFigure("none"),
      PltFigure("AttributeError"), PltFigure("OSError"),
      MatplotlibElement(PltFigure("none"), <<"t">>),
      Cols2(ListInput(<<StrValue(<<"y">>), Object(<<"7">>)>>))>>

\* n entries, taken from LeafSeq in turn beginning after the start-th
Entries(n, start) ==
    [i \in 1..n |-> LeafSeq[((start + i - 1) % Len(LeafSeq)) + 1]]

\* the keys k0, k1, ... of a mapping of n entries
Keys(n) == [i \in 1..n |-> <<"k">> \o IntStr(i - 1)]

\* constructor arguments of at most MaxN entries
ColsInputs ==
    {ListInput(Entries(n, st)) : n \in 0..MaxN, st \in 0..(Len(LeafSeq) - 1)}
    \cup {DictInput(Keys(n), Entries(n, 0)) : n \in 0..MaxN}

\* what add_element is called with: a value, or a container built before
Values ==
    Leaves
    \cup {Cols(ListInput(<<SectionHeader(NameAB), GoFigure("none")>>))}

----------------------------------------------------------------------------
(***************************************************************************)
(* State.                                                                  *)
(***************************************************************************)
VARIABLES
    has_html_path,      \* hasattr(self, "_html_path")
    html_path,          \* self._html_path, a Path (when has_html_path)
    dir_path,           \* self._dir_path
    assets_path,        \* self._assets_path
    plotly_thumbnails,  \* self._plotly_thumbnails
    toc_width,          \* self._toc_width
    elements,           \* self._elements
    toc,                \* self._toc
    fs,                 \* the files on disk: [path, gen], gen the number of
                        \* the write call that wrote the file
    dirs,               \* the directories on disk that a write call made
    doc,                \* the body of the document last written to a file
    uuids,              \* the number of uuid4() calls made
    result,             \* the last call: [op, exc], exc the exception it
                        \* raised or "none"
    ctor_arg,           \* the path argument the constructor was given
    added,              \* the values add_element was called with, in order
    writes,             \* the write calls made: [arg, exc, html, assets,
                        \*                        created]
    built_from,         \* the last container constructor call: [kind, input]
    built,              \* the container it made
    rendered            \* what built._get_html returned, when called

report == <<has_html_path, html_path, dir_path, assets_path,
            plotly_thumbnails, toc_width, elements, toc>>
disk == <<fs, dirs, doc, uuids>>
history == <<ctor_arg, added, writes>>
bench == <<built_from, built, rendered>>
vars == <<report, disk, result, history, bench>>

NoPath == PathOf(<<>>)

\* the attributes _setup_path sets for the expanded path h
PathAttrs(h) ==
    [has |-> TRUE, html |-> h, dir |-> PathParent(h),
     assets |-> JoinPath(JoinPath(PathParent(h),
                                  <<"a", "s", "s", "e", "t", "s">>),
                         PathStem(h))]

\* Report._setup_path: the four attributes after the call
SetupPath(arg) ==
    IF ~arg.given
    THEN [has |-> has_html_path, html |-> html_path, dir |-> dir_path,
          assets |-> assets_path]
    ELSE PathAttrs(ExpandUser(PathOf(arg.s)))

\* the attributes a new Report has
InitAttrs(arg) ==
    IF ~arg.given
    THEN [has |-> FALSE, html |-> NoPath, dir |-> NoPath, assets |-> NoPath]
    ELSE PathAttrs(ExpandUser(PathOf(arg.s)))

\* the attributes are those of sp
AttrsAre(sp) ==
    /\ has_html_path = sp.has
    /\ html_path = sp.html
    /\ dir_path = sp.dir
    /\ assets_path = sp.assets

\* the default argument toc_width = 2 of Report.__init__
DefaultTocWidth == 2

NoContainer == Cols1(ListInput(<<>>))
NoRender == Raised("not called", {}, 0)

\* Report.__init__
Init ==
    /\ ctor_arg \in CtorArgs
    /\ AttrsAre(InitAttrs(ctor_arg))
    /\ \E c \in {<<TRUE, DefaultTocWidth>>, <<FALSE, 3>>} :
            plotly_thumbnails = c[1] /\ toc_width = c[2]
    /\ elements = <<>>
    /\ toc = <<>>
    /\ fs = {}
    /\ dirs = {}
    /\ doc = <<>>
    /\ uuids = 0
    /\ result = [op |-> "__init__", exc |-> "none"]
    /\ added = <<>>
    /\ writes = <<>>
    /\ built_from = [kind |-> "Cols1", input |-> ListInput(<<>>)]
    /\ built = NoContainer
    /\ rendered = NoRender

\* AddOne registering the headers inside a container as well
AddOneNested(st, element) ==
    [toc |-> IF element.k = "SectionHeader"
             THEN Append(st.toc, <<element._name, element._id>>)
             ELSE IF IsNCols(element)
             THEN st.toc \o HeaderPairsIn(element.elements)
             ELSE st.toc,
     elements |-> Append(st.elements,
                         IF ~IsNCols(element)
                         THEN Cols1(ListInput(<<element>>))
                         ELSE element)]

\* the two lists after add_element(element)
AddOne(st, element) ==
    [toc |-> IF element.k = "SectionHeader"
             THEN Append(st.toc, <<element._name, element._id>>)
             ELSE st.toc,
     elements |-> Append(st.elements,
                         IF ~IsNCols(element)
                         THEN Cols1(ListInput(<<element>>))
                         ELSE element)]

\* Report.add_element
AddElement(element) ==
    /\ Len(elements) < MaxElems
    /\ LET st == AddOne([toc |-> toc, elements |-> elements], element)
       IN  /\ toc' = st.toc
           /\ elements' = st.elements
    /\ added' = Append(added, element)
    /\ result' = [op |-> "add_element", exc |-> "none"]
    /\ UNCHANGED <<has_html_path, html_path, dir_path, assets_path,
                   plotly_thumbnails, toc_width, disk, ctor_arg, writes,
                   bench>>

\* Report.add_elements, called with two values
AddElements(e1, e2) ==
    /\ Len(elements) + 2 <= MaxElems
    /\ LET st == AddOne(AddOne([toc |-> toc, elements |-> elements], e1), e2)
       IN  /\ toc' = st.toc
           /\ elements' = st.elements
    /\ added' = added \o <<e1, e2>>
    /\ result' = [op |-> "add_element", exc |-> "none"]
    /\ UNCHANGED <<has_html_path, html_path, dir_path, assets_path,
                   plotly_thumbnails, toc_width, disk, ctor_arg, writes,
                   bench>>

\* the title block write puts first in the body
TitleBlock ==
    _Container(<<_Row(<<_Col12(<<[tag |-> "h1"], Divider(7)>>)>>)>>)

\* the links of the TOC column
TocLinks(t) ==
    [i \in 1..Len(t) |->
        [tag |-> "p",
         kids |-> <<Anchor(<<"#">> \o t[i][2], <<TextNode(t[i][1])>>)>>]]

\* Body with the content column fixed to the width that fits the default
\* toc_width
BodyFixedWidth(t, width, containers) ==
    IF t # <<>>
    THEN <<TitleBlock,
           _Container(<<_Row(<<_Col(TocLinks(t), <<"md", width>>),
                              _Col(containers,
                                   <<"lg", 12 - DefaultTocWidth>>)>>)>>)>>
    ELSE <<TitleBlock>> \o containers

\* the body write builds around the rendered containers
Body(t, width, containers) ==
    IF t # <<>>
    THEN <<TitleBlock,
           _Container(<<_Row(<<_Col(TocLinks(t), <<"md", width>>),
                              _Col(containers, <<"lg", 12 - width>>)>>)>>)>>
    ELSE <<TitleBlock>> \o containers

\* ResetAssets with the rmtree left out
ResetAssetsKeep(files, assets) == files

\* rmtree(assets) if it exists, then mkdir: what is left of the disk
ResetAssets(files, assets) == {f \in files : ~IsUnder(f.path, assets)}

\* rmtree(assets) if it exists, then mkdir(parents=True): the directories
ResetDirs(ds, assets) ==
    {d \in ds : ~IsUnder(d, assets)}
    \cup {[assets EXCEPT !.parts = SubSeq(assets.parts, 1, i)] :
             i \in 1..Len(assets.parts)}

\* the disk after the files in paths were written by call gen
WriteFiles(files, paths, gen) ==
    {f \in files : f.path \notin paths}
    \cup {[path |-> p, gen |-> gen] : p \in paths}

\* the end of Report.write: r is what _write_elements did
WriteOut(arg, sp, gen, r) ==
    /\ result' = [op |-> "write", exc |-> r.exc]
    /\ uuids' = r.n
    /\ dirs' = ResetDirs(dirs, sp.assets)
    /\ fs' = IF r.exc = "none"
             THEN WriteFiles(WriteFiles(ResetAssets(fs, sp.assets),
                                        r.files, gen),
                             {sp.html}, gen)
             ELSE WriteFiles(ResetAssets(fs, sp.assets), r.files, gen)
    /\ doc' = IF r.exc = "none" THEN Body(toc, toc_width, r.html) ELSE doc
    /\ writes' = Append(writes,
                        [arg |-> arg, exc |-> r.exc, html |-> sp.html,
                         assets |-> sp.assets, created |-> r.files])

\* WriteAt without the hasattr check: the pass runs with whatever sp holds
WriteAtUnchecked(arg, sp) ==
    /\ has_html_path' = sp.has
    /\ html_path' = sp.html
    /\ dir_path' = sp.dir
    /\ assets_path' = sp.assets
    /\ WriteOut(arg, sp, Len(writes) + 1,
                _write_elements(elements,
                                [assets_path |-> sp.assets,
                                 plotly_thumbnails |-> plotly_thumbnails],
                                uuids))
    /\ UNCHANGED <<plotly_thumbnails, toc_width, elements, toc, ctor_arg,
                   added, bench>>

\* Report.write after _setup_path, which left the attributes sp
WriteAt(arg, sp) ==
    /\ has_html_path' = sp.has
    /\ html_path' = sp.html
    /\ dir_path' = sp.dir
    /\ assets_path' = sp.assets
    /\ IF ~sp.has
       THEN /\ result' = [op |-> "write", exc |-> "RuntimeError"]
            /\ UNCHANGED disk
            /\ writes' = Append(writes,
                                [arg |-> arg, exc |-> "RuntimeError",
                                 html |-> NoPath, assets |-> NoPath,
                                 created |-> {}])
       ELSE WriteOut(arg, sp, Len(writes) + 1,
                     _write_elements(elements,
                                     [assets_path |-> sp.assets,
                                      plotly_thumbnails |-> plotly_thumbnails],
                                     uuids))
    /\ UNCHANGED <<plotly_thumbnails, toc_width, elements, toc, ctor_arg,
                   added, bench>>

\* Report.write
Write(arg) ==
    /\ Len(writes) < MaxWrites
    /\ WriteAt(arg, SetupPath(arg))

Next ==
    \/ \E element \in Values : AddElement(element)
    \/ \E e1 \in Values, e2 \in Values : AddElements(e1, e2)
    \/ \E arg \in PathArgs \cup {NoArg} : Write(arg)

Spec == Init /\ [][Next]_vars

----------------------------------------------------------------------------
(***************************************************************************)
(* The containers on their own: a container is constructed from an         *)
(* argument of up to MaxN entries and then rendered.                       *)
(***************************************************************************)

\* the rendering context containers are rendered with here
BenchConfig ==
    [assets_path |-> PathAttrs(PathOf(<<"d", "/", "r", ".", "h">>)).assets,
     plotly_thumbnails |-> TRUE]

\* Cols(...), Cols1(...), Cols2(...) or Cols3(...)
Build(kind, input) ==
    /\ built_from' = [kind |-> kind, input |-> input]
    /\ built' = Construct(kind, input)
    /\ rendered' = NoRender
    /\ UNCHANGED <<report, disk, result, history>>

\* built._get_html(config)
Render ==
    /\ rendered = NoRender
    /\ rendered' = NColsGetHtml(built, BenchConfig, 0)
    /\ UNCHANGED <<report, disk, result, history, built_from, built>>

InitCols == Init /\ ctor_arg = NoArg /\ plotly_thumbnails

NextCols ==
    \/ \E kind \in ColsKinds, input \in ColsInputs : Build(kind, input)
    \/ Render

SpecCols == InitCols /\ [][NextCols]_vars

----------------------------------------------------------------------------
(***************************************************************************)
(* Properties.                                                             *)
(***************************************************************************)

\* the last write call, when there was one
LastWrite == writes[Len(writes)]

\* the files on disk in or below directory d
FilesUnder(d) == {f \in fs : IsUnder(f.path, d)}

\* C1: after two successive successful write calls that resolve to the same
\* output path, the files in that path's asset directory are exactly the
\* files the second call created; none is left from the first call.
C1_SecondWriteReplacesAssets ==
    \A j \in 2..Len(writes) :
        ( /\ j = Len(writes)
          /\ writes[j - 1].exc = "none"
          /\ writes[j].exc = "none"
          /\ writes[j - 1].html = writes[j].html )
        => /\ {f.path : f \in FilesUnder(writes[j].assets)} = writes[j].created
           /\ \A f \in FilesUnder(writes[j].assets) : f.gen = j

\* two successful writes to one path, each of which created assets
C1_Witness ==
    /\ Len(writes) = 2
    /\ writes[1].exc = "none" /\ writes[2].exc = "none"
    /\ writes[1].html = writes[2].html
    /\ writes[1].created # {} /\ writes[2].created # {}
    /\ writes[1].created \cap writes[2].created = {}

\* no output path was given to the constructor or to any write call so far
NoPathGiven ==
    /\ ~ctor_arg.given
    /\ \A i \in 1..Len(writes) : ~writes[i].arg.given

\* C2: when no output path was given at construction and none is given to
\* write, write raises the configuration error and the disk is untouched:
\* no report file, no asset, no asset directory, whatever was added before.
C2_NoPathWriteRaises ==
    NoPathGiven =>
        /\ \A i \in 1..Len(writes) :
              writes[i].exc = "RuntimeError" /\ writes[i].created = {}
        /\ fs = {} /\ dirs = {} /\ doc = <<>> /\ uuids = 0
        /\ ~has_html_path

\* a pathless write of a report that holds an image
C2_Witness ==
    /\ NoPathGiven
    /\ Len(writes) >= 1
    /\ result = [op |-> "write", exc |-> "RuntimeError"]
    /\ \E i \in 1..Len(elements) :
          \E j \in 1..Len(elements[i].elements) :
              elements[i].elements[j].k = "MatplotlibElement"

\* C5: the TOC is exactly the (name, anchor id) pairs of the SectionHeaders
\* passed directly to add_element/add_elements, in call order; a header
\* inside a container adds nothing, and write leaves the TOC alone.
C5_TocIsDirectHeaders == toc = HeaderPairsIn(added)

\* a header added directly, a container holding a header added too, and a
\* write call made
C5_Witness ==
    /\ Len(toc) = 1
    /\ Len(writes) >= 1
    /\ \E i \in 1..Len(added) :
          /\ IsNCols(added[i])
          /\ \E j \in 1..Len(added[i].elements) :
                added[i].elements[j].k = "SectionHeader"

\* the children of a markup node
Kids(node) == IF "kids" \in DOMAIN node THEN node.kids ELSE <<>>

RECURSIVE Descendants(_)
\* a markup node and every node below it
Descendants(node) ==
    {node} \cup UNION {Descendants(Kids(node)[i]) : i \in 1..Len(Kids(node))}

\* every node of the document last written
DocNodes == UNION {Descendants(doc[i]) : i \in 1..Len(doc)}

\* the last call was a write that returned normally
WriteReturned == result = [op |-> "write", exc |-> "none"]

RECURSIVE DropDotDot(_, _)
\* parts with each ".." taking away the component before it
DropDotDot(parts, acc) ==
    IF parts = <<>> THEN acc
    ELSE IF Head(parts) = <<".", ".">>
         THEN DropDotDot(Tail(parts),
                         IF acc = <<>> THEN acc
                         ELSE SubSeq(acc, 1, Len(acc) - 1))
         ELSE DropDotDot(Tail(parts), Append(acc, Head(parts)))

\* the file a reference ref names for a document that lies in directory dir
ResolveRef(dir, ref) ==
    LET p == JoinPath(dir, ref)
    IN  [p EXCEPT !.parts = DropDotDot(p.parts, <<>>)]

\* the references of the images in the document: the anchors around an
\* img that link to the image itself
ImageRefs ==
    {n.href : n \in {m \in DocNodes :
                        /\ m.tag = "a"
                        /\ Len(m.kids) = 1
                        /\ m.kids[1].tag = "img"
                        /\ m.kids[1].src = m.href}}

\* C3: when write returns, every image reference in the document, resolved
\* relative to the report file's directory, is the path of a file that
\* this write call wrote into the asset directory and that exists on disk.
C3_ImageRefsResolve ==
    WriteReturned =>
        \A ref \in ImageRefs :
            /\ ResolveRef(dir_path, ref) \in LastWrite.created
            /\ ResolveRef(dir_path, ref) \in {f.path : f \in fs}
            /\ IsUnder(ResolveRef(dir_path, ref), assets_path)

\* the elements of the report's containers, in rendering order
RECURSIVE Flatten(_)
Flatten(cs) ==
    IF cs = <<>> THEN <<>> ELSE Head(cs).elements \o Flatten(Tail(cs))

\* el is a figure element whose backend raises when asked to serialize it
Fails(el) ==
    /\ el.k \in {"MatplotlibElement", "PlotlyElement"}
    /\ el.content.fail # "none"

\* the number of files rendering el writes
FilesOf(el) ==
    IF el.k = "MatplotlibElement" THEN 1
    ELSE IF el.k = "PlotlyElement" THEN (IF plotly_thumbnails THEN 2 ELSE 1)
    ELSE 0

RECURSIVE FilesBeforeFailure(_)
\* the number of files written by the elements before the first that fails
FilesBeforeFailure(els) ==
    IF els = <<>> \/ Fails(Head(els)) THEN 0
    ELSE FilesOf(Head(els)) + FilesBeforeFailure(Tail(els))

\* the exception of the first element that fails
RECURSIVE FirstFailure(_)
FirstFailure(els) ==
    IF els = <<>> THEN "none"
    ELSE IF Fails(Head(els)) THEN Head(els).content.fail
    ELSE FirstFailure(Tail(els))

\* C4: an exception of any kind raised while an element is materialized
\* during write is not caught by the container or the report: write raises
\* it, the elements after it are not rendered, and the report file is not
\* written in that pass.
C4_MaterializationErrorsPropagate ==
    ( /\ result.op = "write"
      /\ has_html_path
      /\ \E i \in 1..Len(Flatten(elements)) : Fails(Flatten(elements)[i]) )
    => /\ result.exc = FirstFailure(Flatten(elements))
       /\ Cardinality(LastWrite.created) = FilesBeforeFailure(Flatten(elements))
       /\ ~\E f \in fs : f.path = html_path /\ f.gen = Len(writes)

\* name with each character of the set ws replaced by an underscore
Underscored(name, ws) ==
    [j \in 1..Len(name) |-> IF name[j] \in ws THEN "_" ELSE name[j]]

\* the document has a wrapper element with this id around the heading name
HasAnchor(id, name) ==
    \E n \in DocNodes :
        /\ "id" \in DOMAIN n
        /\ n.id = id
        /\ n.tag = "div"
        /\ RawNode(<<"<h2>">> \o name) \in Descendants(n)

\* the anchor ids are the names with the characters of ws replaced
AnchorIdsReplace(ws) ==
    /\ \A i \in 1..Len(toc) : toc[i][2] = Underscored(toc[i][1], ws)
    /\ WriteReturned =>
          \A i \in 1..Len(toc) :
              HasAnchor(Underscored(toc[i][1], ws), toc[i][1])

\* C6 as stated: the anchor id of a section is its name with every
\* whitespace character replaced by an underscore; the TOC entry carries
\* that id and the rendered header is wrapped in an element with that id.
C6_WhitespaceReplaced == AnchorIdsReplace({" ", "\t", "\n", "\r"})

\* C6 as amended: the anchor id of a section is its name with every space
\* character replaced by an underscore and every other character, tabs and
\* other whitespace included, kept; the TOC entry carries that id and the
\* rendered header is wrapped in an element with that id.
C6_SpacesReplaced == AnchorIdsReplace({" "})

\* a report with the header "A B<tab>c  d" added directly, written
C6_Witness ==
    /\ WriteReturned
    /\ \E i \in 1..Len(toc) :
          /\ toc[i][1] = NameTab
          /\ toc[i][2] = <<"A", "_", "B", "\t", "c", "_", "_", "d">>
          /\ HasAnchor(toc[i][2], NameTab)

\* C7: a report without TOC entries is written without a TOC column, its
\* containers directly in the body; with at least one entry the body holds
\* one row of exactly two columns: the first of width toc_width with one
\* link per entry in order, the second of width 12 - toc_width with all the
\* rendered containers.
C7_TocColumns ==
    WriteReturned =>
        IF toc = <<>>
        THEN /\ Len(doc) = 1 + Len(elements)
             /\ doc[1] = TitleBlock
             /\ \A i \in 1..Len(elements) :
                   /\ doc[i + 1].cls = <<"container-fluid">>
                   /\ Len(doc[i + 1].kids) = 1
                   /\ doc[i + 1].kids[1].cls = <<"row">>
                   /\ Len(doc[i + 1].kids[1].kids) = Len(elements[i].elements)
        ELSE /\ Len(doc) = 2
             /\ doc[1] = TitleBlock
             /\ doc[2].cls = <<"container-fluid">>
             /\ Len(doc[2].kids) = 1
             /\ LET row == doc[2].kids[1]
                IN  /\ row.cls = <<"row">>
                    /\ Len(row.kids) = 2
                    /\ row.kids[1].cls = <<"col", "md", toc_width>>
                    /\ row.kids[2].cls = <<"col", "lg", 12 - toc_width>>
                    /\ row.kids[1].cls[3] + row.kids[2].cls[3] = 12
                    /\ Len(row.kids[1].kids) = Len(toc)
                    /\ \A i \in 1..Len(toc) :
                          row.kids[1].kids[i] =
                              [tag |-> "p",
                               kids |-> <<Anchor(<<"#">> \o toc[i][2],
                                                 <<TextNode(toc[i][1])>>)>>]
                    /\ Len(row.kids[2].kids) = Len(elements)
                    /\ \A i \in 1..Len(elements) :
                          /\ row.kids[2].kids[i].cls = <<"container-fluid">>
                          /\ Len(row.kids[2].kids[i].kids[1].kids)
                                = Len(elements[i].elements)

\* a report with a TOC entry and a toc_width other than the default, written
C7_Witness ==
    /\ WriteReturned
    /\ Len(toc) >= 1
    /\ Len(elements) = 2
    /\ toc_width = 3
    /\ Len(doc) = 2

\* the number of entries the last constructor call was given
BuiltN == Len(built_from.input.items)

\* the width, in twelfths of the row, of the table's class for N columns
TableWidth(N) ==
    CASE N = 1 -> 12
      [] N = 2 -> 6
      [] N = 3 -> 4
      [] N = 4 -> 3
      [] N \in 5..6 -> 2
      [] N >= 7 -> 1

\* C8: the column class of a Cols built from N entries depends on N alone:
\* 12/12 for N = 1, 6/12 for 2, 4/12 for 3, 3/12 for 4, 2/12 for 5 and 6,
\* 1/12 for every N >= 7; the rendered columns carry that class.
C8_ColsClassTable ==
    (built_from.kind = "Cols" /\ BuiltN >= 1) =>
        /\ built.col_cls[2] = TableWidth(BuiltN)
        /\ built.col_cls[1] \in {"xl", "lg", "md", "sm"}
        /\ rendered.exc = "none" =>
              \A i \in 1..BuiltN :
                  rendered.html.kids[1].kids[i].cls
                      = <<"col", built.col_cls[1], TableWidth(BuiltN)>>

\* a Cols of seven or more entries, rendered
C8_Witness ==
    /\ built_from.kind = "Cols"
    /\ BuiltN >= 7
    /\ rendered.exc = "none"
    /\ built.col_cls = <<"sm", 1>>

\* the kinds of value C9 is about
PlainKinds == {"str", "html_tag", "object"}

\* C9: resolving and rendering a plain string, a markup fragment or an
\* object of no recognized type never raises: the string becomes a Text
\* element rendered as a paragraph of the text, the fragment a Markup
\* element rendered as raw markup, and the object is kept as it is and
\* rendered as its string conversion only when the container is rendered.
C9_PlainValuesRender ==
    /\ \A i \in 1..BuiltN :
          LET val == built_from.input.items[i]
              el == built.elements[i]
          IN  /\ val.k = "str" =>
                    el.k = "TextElement" /\ el.content = val.v
              /\ val.k = "html_tag" =>
                    el.k = "HTMLElement" /\ el.content = val.v
              /\ val.k = "object" => el = val
              /\ (val.k \in PlainKinds /\ rendered.exc = "none") =>
                    rendered.html.kids[1].kids[i].kids =
                        <<CASE val.k = "str" ->
                                  [tag |-> "p", kids |-> <<TextNode(val.v)>>]
                            [] val.k = "html_tag" -> RawNode(val.v)
                            [] val.k = "object" -> TextNode(val.v)>>
    /\ ( /\ rendered # NoRender
         /\ \A i \in 1..BuiltN : built_from.input.items[i].k \in PlainKinds )
       => rendered.exc = "none"

\* a container of a string, an object and a markup fragment, rendered
C9_Witness ==
    /\ BuiltN = 3
    /\ {built_from.input.items[i].k : i \in 1..BuiltN} = PlainKinds
    /\ rendered.exc = "none"

\* C10: every container that can be constructed has column count N >= 1
\* and holds exactly one resolved element per input entry, in input order.
C10_ContainerInvariant ==
    /\ built.n_cols >= 1
    /\ Len(built.elements) = BuiltN
    /\ \A i \in 1..BuiltN :
          built.elements[i] =
              _resolve_element(built_from.input.items[i],
                               IF built_from.input.isdict
                               THEN built_from.input.keys[i]
                               ELSE IndexTag(i - 1))

====
